---------------------------- MODULE Spec2Model ----------------------------
(***************************************************************************)
(* drillmeasure: the drill execution engine (internal/runner/runner.go)    *)
(* and the run operation that calls it (cmd/run.go).                       *)
(*                                                                         *)
(* One run of Runner.Run on one scenario.  Time is counted in seconds; the *)
(* zero time.Time is 0 and the clock starts at 1, so a timestamp read from *)
(* the clock is never the zero time.  Every shell command is one step: its *)
(* exit status is an input of the environment.  A health check or a        *)
(* recover command takes `latency` seconds, chosen per run; a health check *)
(* of the polling loop may also hang until its timeout kills it.  The      *)
(* other commands take SetupDur seconds, or never exit.  bash is found or  *)
(* missing for the whole run.  The caller may cancel the run's context     *)
(* while Run sleeps or before an attempt of the polling loop; a command    *)
(* launched with the context done fails at once with exit code -1.         *)
(*                                                                         *)
(* Spec is Run called by any caller of the package; SpecCli is the run     *)
(* operation: it parses and validates the scenario file, calls Run with a  *)
(* context that is never cancelled and writes the reports.                 *)
(***************************************************************************)
EXTENDS Integers, Sequences, FiniteSets

VARIABLES
    scenario,    \* *config.Scenario: which optional fields are present, the durations
    latency,     \* how long a health check or a recover command runs in this run's environment
    bashFound,   \* exec.CommandContext finds "bash" in this run's environment
    cli,         \* the run operation (runScenario): its position, the error it
                 \* returns and the report files written
    ctxDone,     \* the run's context has been cancelled (ctx.Done() is closed)
    clock,       \* time.Now()
    pc,          \* the position of Run's control flow
    result,      \* *DrillResult
    retErr,      \* the error Run returns ("nil" while running and on success)
    rtaStarted,  \* waitForHealthCheck's local
    attemptNum,  \* waitForHealthCheck's local
    issued       \* every command executeCommand has run so far, in order

vars == <<scenario, latency, bashFound, cli, ctxDone, clock, pc, result, retErr, rtaStarted, attemptNum, issued>>

-----------------------------------------------------------------------------
(* Bounds of the model *)

\* the longest a health check or a recover command runs, in seconds
MaxDur == 1
\* the most factor log commands a scenario lists
MaxFactors == 1
\* the most health checks one run may issue before the model stops following it
MaxAttempts == 4
\* how long a command outside the measurement takes, in seconds
SetupDur == 1
\* the most the clock advances between two consecutive reads of it
MaxGap == 1

(* Program constants *)

\* healthCheckInterval: 5 * time.Second
HealthCheckInterval == 5
\* healthCheckTimeout: 5 * time.Minute
HealthCheckTimeout == 300

\* the RTO targets tried: 5s and 5m (time.ParseDuration of rto_target)
RTOTargets == {5, 300}
\* the post-disrupt delays tried: none, 2s
PostDisruptDelays == {0, 2}
\* the RPO targets tried: none, 60s
RPOTargets == {0, 60}
\* exit statuses of a process that exits by itself
ExitCodes == {0, 1}
\* how long a command outside the measurement may run
Unmeasured == {SetupDur}

Zero == 0
\* what a command that writes nothing leaves in the stderr buffer
Silent == <<>>
\* what a failing command writes to stderr
ErrorOutput == <<"error output">>
\* what a succeeding command writes to stdout
Output == <<"output">>
\* the texts of the errors cmd.Run returns before bash has started
NotFound == "exec: bash: executable file not found in $PATH"
Canceled == "context canceled"

\* hashString: the SHA-256 digest of s, kept as the digest of its argument.
hashString(s) == <<"sha256", s>>

None == [ExitCode |-> 0, Timestamp |-> Zero, Duration |-> 0, Kind |-> "nil",
         Stdout |-> Silent, Stderr |-> Silent, StdoutHash |-> <<>>, StderrHash |-> <<>>]

-----------------------------------------------------------------------------
(* Scenario *)

\* the fields of a scenario that hold a duration string
DurationFields == {"rto_target", "rpo_target", "post_disrupt_delay"}

\* the fields Validate requires besides rto_target
RequiredFields == {"name", "disrupt_command", "health_check_command"}

\* Malformed: the duration fields whose string time.ParseDuration rejects (an
\* empty rto_target is one); the value given here for such a field is never
\* read.  Missing: the required fields that are empty.
Scenarios ==
    [ Missing          : SUBSET RequiredFields,
      Malformed        : SUBSET DurationFields,
      PreSnapshot      : BOOLEAN,
      RecoverCommand   : BOOLEAN,
      PostSnapshot     : BOOLEAN,
      VerifyCommand    : BOOLEAN,
      LogCommands      : 0..MaxFactors,
      RTOTarget        : RTOTargets,
      RPOTarget        : RPOTargets,
      PostDisruptDelay : PostDisruptDelays ]

-----------------------------------------------------------------------------
(* executeCommand *)

\* how long a command may run while RTA is measured
Measured == {latency}

\* What one call of executeCommand can observe, given whether ctx is done
\* when the command is launched and the durations the command may take.
\*   exit     the process exits by itself with status c after d seconds; one
\*            that exits 0 has written to stdout, one that exits non-zero
\*            to stderr
\*   canceled ctx is already done: cmd.Run fails at once, before bash starts,
\*            and ctx.Err() is context.Canceled
\*   launch   bash is not found: cmd.Run fails at once with an *exec.Error
\* Stdout and Stderr are what the process wrote, Err the text of cmd.Run's
\* error.
Outcomes(done, durations) ==
    IF done
    THEN { [ExitCode |-> -1, Duration |-> 0, Kind |-> "canceled",
            Stdout |-> Silent, Stderr |-> Silent,
            Err |-> IF bashFound THEN Canceled ELSE NotFound] }
    ELSE IF ~bashFound
    THEN { [ExitCode |-> -1, Duration |-> 0, Kind |-> "launch",
            Stdout |-> Silent, Stderr |-> Silent,
            Err |-> NotFound] }
    ELSE { [ExitCode |-> c, Duration |-> d, Kind |-> "exit",
            Stdout |-> IF c = 0 THEN Output ELSE Silent,
            Stderr |-> IF c = 0 THEN Silent ELSE ErrorOutput,
            Err |-> IF c = 0 THEN "nil" ELSE "exit status"] :
               c \in ExitCodes, d \in durations }

\* The *CommandResult of outcome o of a command started at time t, lines
\* 204-230: the hash is taken of the captured stderr; a message is put in
\* place of an empty stderr only when cmd.Run's error is not an *exec.ExitError.
CommandResult(o, t) ==
    [ExitCode |-> o.ExitCode, Timestamp |-> t, Duration |-> o.Duration, Kind |-> o.Kind,
     Stdout |-> o.Stdout,
     StdoutHash |-> hashString(o.Stdout),
     Stderr |-> IF o.Stderr # Silent THEN o.Stderr
                ELSE CASE o.Kind = "canceled" -> <<"command canceled:", o.Err>>
                       [] o.Kind = "launch"   -> <<o.Err>>
                       [] OTHER               -> o.Stderr,
     StderrHash |-> hashString(o.Stderr)]

\* executeCommand starting the command without waiting for it to end
\* (cmd.Start in place of cmd.Run).
executeCommand_NoWait(cmd, o) ==
    /\ clock' = clock
    /\ ctxDone' = ctxDone
    /\ issued' = Append(issued, cmd)

\* executeCommand(ctx, cmd) with outcome o: the clock advances by the
\* duration, the context may have been cancelled meanwhile.
executeCommand(cmd, o) ==
    /\ clock' = clock + o.Duration
    /\ ctxDone' = ctxDone
    /\ issued' = Append(issued, cmd)

-----------------------------------------------------------------------------
(* Run *)

InitResult ==
    [ StartTime |-> Zero, EndTime |-> Zero,
      PreSnapshot |-> None, Disrupt |-> None, Recover |-> None,
      PostSnapshot |-> None, RPOVerify |-> None,
      PostDisruptDelay |-> 0,
      RTOStartTime |-> Zero, RTOEndTime |-> Zero, RTA |-> 0,
      RTOTarget |-> 0, RTOPassed |-> FALSE,
      RPOTarget |-> 0, RPOPassed |-> FALSE,
      HealthCheckAttempts |-> <<>>, FactorLogs |-> <<>>, Errors |-> <<>> ]

\* Run is called by a caller of the package, not by the run operation.
NoCli == [pc |-> "none", err |-> "nil", reports |-> {}]

\* Run reads none of the required fields for being empty, so the scenarios it
\* is given here have them all.
Init ==
    /\ scenario \in Scenarios
    /\ scenario.Missing = {}
    /\ latency \in 0..MaxDur
    /\ bashFound \in BOOLEAN
    /\ cli = NoCli
    /\ ctxDone = FALSE
    /\ clock = 1
    /\ pc = "start"
    /\ result = InitResult
    /\ retErr = "nil"
    /\ rtaStarted = FALSE
    /\ attemptNum = 0
    /\ issued = <<>>

\* The step after the disrupt command.
AfterDisrupt == IF scenario.PostDisruptDelay > 0 THEN "delay" ELSE "check"
\* AfterCheck with the recover step skipped.
AfterCheck_SkipRecover == "poll"

\* The step after the down-detection check.
AfterCheck == IF scenario.RecoverCommand THEN "recover" ELSE "poll"
\* The step after waitForHealthCheck returns.
AfterPoll == IF scenario.PostSnapshot THEN "post" ELSE "verify"
\* The step after the RPO verification.
AfterVerify == IF scenario.LogCommands > 0 THEN "logs" ELSE "final"

\* ParseError without the test of the post-disrupt delay.
ParseError_SkipsDelay(s) ==
    IF "rto_target" \in s.Malformed THEN "invalid RTO target"
    ELSE IF "rpo_target" \in s.Malformed THEN "invalid RPO target"
    ELSE "nil"

\* The error of the first duration that does not parse, lines 73-90.
ParseError(s) ==
    IF "rto_target" \in s.Malformed THEN "invalid RTO target"
    ELSE IF "rpo_target" \in s.Malformed THEN "invalid RPO target"
    ELSE IF "post_disrupt_delay" \in s.Malformed THEN "invalid post_disrupt_delay"
    ELSE "nil"

\* Run, lines 66-90: the result record and the parsed durations; a duration
\* that does not parse makes Run return nil and the error (pc = "rejected").
Start ==
    /\ pc = "start"
    /\ cli.pc \in {"none", "run"}
    /\ IF ParseError(scenario) # "nil"
       THEN /\ retErr' = ParseError(scenario)
            /\ pc' = "rejected"
            /\ result' = result
       ELSE /\ result' = [result EXCEPT !.StartTime = clock,
                                        !.RTOTarget = scenario.RTOTarget,
                                        !.RPOTarget = scenario.RPOTarget,
                                        !.PostDisruptDelay = scenario.PostDisruptDelay]
            /\ pc' = IF scenario.PreSnapshot THEN "pre" ELSE "disrupt"
            /\ retErr' = retErr
    /\ UNCHANGED <<scenario, latency, bashFound, cli, ctxDone, clock, rtaStarted, attemptNum, issued>>

\* The caller cancels the run's context: while Run sleeps (the post-disrupt
\* delay, the inter-poll wait) or before an attempt of the polling loop.
Cancel ==
    /\ pc \in {"delay", "poll", "wait"}
    /\ ~ctxDone
    /\ ctxDone' = TRUE
    /\ UNCHANGED <<scenario, latency, bashFound, cli, clock, pc, result, retErr, rtaStarted, attemptNum, issued>>

\* The steps whose command runs under the run's ctx itself.
UnderRunContext == {"pre", "disrupt", "check", "recover", "post", "verify", "logs"}

\* The command of the step never exits: ctx has no deadline, so nothing kills
\* it and cmd.Run, line 203, does not return; Run stays in executeCommand.
Hang ==
    /\ pc \in UnderRunContext
    /\ pc = "verify" => scenario.VerifyCommand
    /\ ~ctxDone
    /\ bashFound
    /\ pc' = "blocked"
    /\ UNCHANGED <<scenario, latency, bashFound, cli, ctxDone, clock, result, retErr, rtaStarted, attemptNum, issued>>

\* The error string a failed command leaves in result.Errors.
FailedError(name, code) == <<name, "failed with exit code", code>>

\* Step 1: pre-snapshot.
PreSnapshot ==
    /\ pc = "pre"
    /\ \E o \in Outcomes(ctxDone, Unmeasured) :
        LET r == CommandResult(o, clock) IN
        /\ executeCommand(<<"pre_snapshot", 0>>, o)
        /\ result' = [result EXCEPT
                        !.PreSnapshot = r,
                        !.Errors = IF r.ExitCode # 0
                                   THEN Append(@, FailedError("pre_snapshot", r.ExitCode))
                                   ELSE @]
    /\ pc' = "disrupt"
    /\ UNCHANGED <<scenario, latency, bashFound, cli, retErr, rtaStarted, attemptNum>>

\* Disrupt returning an error to the caller when the command fails.
Disrupt_Abort ==
    /\ pc = "disrupt"
    /\ \E o \in Outcomes(ctxDone, Unmeasured) :
        LET r == CommandResult(o, clock) IN
        /\ executeCommand(<<"disrupt_command", 0>>, o)
        /\ result' = [result EXCEPT
                        !.Disrupt = r,
                        !.Errors = IF r.ExitCode # 0
                                   THEN Append(@, FailedError("disrupt_command", r.ExitCode))
                                   ELSE @]
        /\ pc' = IF r.ExitCode # 0 THEN "done" ELSE AfterDisrupt
        /\ retErr' = IF r.ExitCode # 0 THEN "disrupt_command failed" ELSE retErr
    /\ UNCHANGED <<scenario, latency, bashFound, cli, rtaStarted, attemptNum>>

\* Step 2: disrupt.
Disrupt ==
    /\ pc = "disrupt"
    /\ \E o \in Outcomes(ctxDone, Unmeasured) :
        LET r == CommandResult(o, clock) IN
        /\ executeCommand(<<"disrupt_command", 0>>, o)
        /\ result' = [result EXCEPT
                        !.Disrupt = r,
                        !.Errors = IF r.ExitCode # 0
                                   THEN Append(@, FailedError("disrupt_command", r.ExitCode))
                                   ELSE @]
    /\ pc' = AfterDisrupt
    /\ UNCHANGED <<scenario, latency, bashFound, cli, retErr, rtaStarted, attemptNum>>

\* DelayElapsed without the sleep.
DelayElapsed_NoWait ==
    /\ pc = "delay"
    /\ ~ctxDone
    /\ pc' = "check"
    /\ UNCHANGED <<scenario, latency, bashFound, cli, ctxDone, clock, result, retErr, rtaStarted, attemptNum, issued>>

\* Step 3: the post-disrupt delay runs out (time.After wins the select).
DelayElapsed ==
    /\ pc = "delay"
    /\ ~ctxDone
    /\ clock' = clock + scenario.PostDisruptDelay
    /\ pc' = "check"
    /\ UNCHANGED <<scenario, latency, bashFound, cli, ctxDone, result, retErr, rtaStarted, attemptNum, issued>>

\* DelayCancelled going on with the run instead of returning.
DelayCancelled_GoesOn ==
    /\ pc = "delay"
    /\ ctxDone
    /\ pc' = "check"
    /\ UNCHANGED <<scenario, latency, bashFound, cli, ctxDone, clock, result, retErr, rtaStarted, attemptNum, issued>>

\* Step 3: ctx.Done() wins the select: return result, ctx.Err().
DelayCancelled ==
    /\ pc = "delay"
    /\ ctxDone
    /\ retErr' = "context canceled"
    /\ pc' = "done"
    /\ UNCHANGED <<scenario, latency, bashFound, cli, ctxDone, clock, result, rtaStarted, attemptNum, issued>>

\* DownDetect leaving its check out of the history (line 119 dropped).
DownDetect_NoRecord ==
    /\ pc = "check"
    /\ \E o \in Outcomes(ctxDone, Measured) :
        LET postDisruptCheck == CommandResult(o, clock) IN
        /\ executeCommand(<<"health_check_command", 0>>, o)
        /\ result' = [result EXCEPT
                        !.RTOStartTime = IF postDisruptCheck.ExitCode # 0
                                         THEN postDisruptCheck.Timestamp
                                         ELSE @]
        \* waitForHealthCheck's locals are set when it is entered (lines 242-243);
        \* only the recover command runs in between, and it changes neither field.
        /\ rtaStarted' = (postDisruptCheck.ExitCode # 0)
        /\ attemptNum' = Len(result.HealthCheckAttempts)
    /\ pc' = AfterCheck
    /\ UNCHANGED <<scenario, latency, bashFound, cli, retErr>>

\* DownDetect with the loop's attempt counter starting from 0.
DownDetect_CountsFromZero ==
    /\ pc = "check"
    /\ \E o \in Outcomes(ctxDone, Measured) :
        LET postDisruptCheck == CommandResult(o, clock) IN
        /\ executeCommand(<<"health_check_command", 0>>, o)
        /\ result' = [result EXCEPT
                        !.HealthCheckAttempts = Append(@, postDisruptCheck),
                        !.RTOStartTime = IF postDisruptCheck.ExitCode # 0
                                         THEN postDisruptCheck.Timestamp
                                         ELSE @]
        \* waitForHealthCheck's locals are set when it is entered (lines 242-243);
        \* only the recover command runs in between, and it changes neither field.
        /\ rtaStarted' = (postDisruptCheck.ExitCode # 0)
        /\ attemptNum' = 0
    /\ pc' = AfterCheck
    /\ UNCHANGED <<scenario, latency, bashFound, cli, retErr>>

\* Step 4: the down-detection check, lines 118-125.
DownDetect ==
    /\ pc = "check"
    /\ \E o \in Outcomes(ctxDone, Measured) :
        LET postDisruptCheck == CommandResult(o, clock) IN
        /\ executeCommand(<<"health_check_command", 0>>, o)
        /\ result' = [result EXCEPT
                        !.HealthCheckAttempts = Append(@, postDisruptCheck),
                        !.RTOStartTime = IF postDisruptCheck.ExitCode # 0
                                         THEN postDisruptCheck.Timestamp
                                         ELSE @]
        \* waitForHealthCheck's locals are set when it is entered (lines 242-243);
        \* only the recover command runs in between, and it changes neither field.
        /\ rtaStarted' = (postDisruptCheck.ExitCode # 0)
        /\ attemptNum' = Len(result.HealthCheckAttempts) + 1
    /\ pc' = AfterCheck
    /\ UNCHANGED <<scenario, latency, bashFound, cli, retErr>>

\* Recover returning an error to the caller when bash cannot be started.
Recover_AbortOnLaunch ==
    /\ pc = "recover"
    /\ \E o \in Outcomes(ctxDone, Measured) :
        LET r == CommandResult(o, clock) IN
        /\ executeCommand(<<"recover_command", 0>>, o)
        /\ result' = [result EXCEPT
                        !.Recover = r,
                        !.Errors = IF r.ExitCode # 0
                                   THEN Append(@, FailedError("recover_command", r.ExitCode))
                                   ELSE @]
        /\ pc' = IF r.Kind = "launch" THEN "done" ELSE "poll"
        /\ retErr' = IF r.Kind = "launch" THEN NotFound ELSE retErr
    /\ UNCHANGED <<scenario, latency, bashFound, cli, rtaStarted, attemptNum>>

\* Step 5: recover.
Recover ==
    /\ pc = "recover"
    /\ \E o \in Outcomes(ctxDone, Measured) :
        LET r == CommandResult(o, clock) IN
        /\ executeCommand(<<"recover_command", 0>>, o)
        /\ result' = [result EXCEPT
                        !.Recover = r,
                        !.Errors = IF r.ExitCode # 0
                                   THEN Append(@, FailedError("recover_command", r.ExitCode))
                                   ELSE @]
    /\ pc' = "poll"
    /\ UNCHANGED <<scenario, latency, bashFound, cli, retErr, rtaStarted, attemptNum>>

-----------------------------------------------------------------------------
(* waitForHealthCheck *)

\* A health check of the polling loop runs under checkCtx, which is done when
\* ctx is done or healthCheckTimeout has passed: a check still running then
\* is killed, and cmd.Run returns the *exec.ExitError of a killed process,
\* whose ExitCode() is -1.  The check that hangs has written nothing.
HealthOutcomes(done) ==
    Outcomes(done, Measured)
    \cup
    IF done \/ ~bashFound THEN {}
    ELSE { [ExitCode |-> -1, Duration |-> HealthCheckTimeout, Kind |-> "timeout",
            Stdout |-> Silent, Stderr |-> Silent, Err |-> "signal: killed"] }

\* Healthy without the verdict of the no-downtime branch (line 269 dropped).
Healthy_NoVerdict(res, started, now) ==
    IF started
    THEN [res EXCEPT !.RTOEndTime = now,
                     !.RTA = now - res.RTOStartTime,
                     !.RTOPassed = (now - res.RTOStartTime <= res.RTOTarget)]
    ELSE res

\* result after a successful attempt, lines 255-272, at time now.
Healthy(res, started, now) ==
    IF started
    THEN [res EXCEPT !.RTOEndTime = now,
                     !.RTA = now - res.RTOStartTime,
                     !.RTOPassed = (now - res.RTOStartTime <= res.RTOTarget)]
    ELSE [res EXCEPT !.RTOPassed = TRUE]

\* DeadlineExceeded with the deadline itself counted as passed (!now.Before).
DeadlineExceeded_AtDeadline(res, now) == now >= res.RTOStartTime + res.RTOTarget

\* now.After(deadline), deadline = RTOStartTime + rtoTarget, line 285.
DeadlineExceeded(res, now) == now > res.RTOStartTime + res.RTOTarget

\* Exceeded measuring RTA from the start of the run.
Exceeded_FromRunStart(res, now) ==
    [res EXCEPT !.RTA = now - res.StartTime,
                !.RTOEndTime = now,
                !.RTOPassed = FALSE]

\* result after a failed attempt whose deadline check fired, lines 286-291.
Exceeded(res, now) ==
    [res EXCEPT !.RTA = now - res.RTOStartTime,
                !.RTOEndTime = now,
                !.RTOPassed = FALSE]

\* Poll taking every failed attempt as the start of RTA (no rtaStarted test).
Poll_RestartsRta ==
    /\ pc = "poll"
    /\ Len(result.HealthCheckAttempts) < MaxAttempts
    /\ \E o \in HealthOutcomes(ctxDone) :
        LET attempt  == CommandResult(o, clock)
            now      == clock + o.Duration
            appended == [result EXCEPT !.HealthCheckAttempts = Append(@, attempt)]
            down     == [appended EXCEPT
                            !.RTOStartTime = attempt.Timestamp]
        IN
        /\ executeCommand(<<"health_check_command", 0>>, o)
        /\ attemptNum' = attemptNum + 1
        /\ IF attempt.ExitCode = 0
           THEN /\ result' = Healthy(appended, rtaStarted, now)
                /\ rtaStarted' = rtaStarted
                /\ pc' = AfterPoll
           ELSE /\ rtaStarted' = TRUE
                /\ IF DeadlineExceeded(down, now)
                   THEN /\ result' = Exceeded(down, now)
                        /\ pc' = AfterPoll
                   ELSE /\ result' = down
                        /\ pc' = "wait"
    /\ UNCHANGED <<scenario, latency, bashFound, cli, retErr>>

\* One iteration of the loop up to its select, lines 246-300.
Poll ==
    /\ pc = "poll"
    /\ Len(result.HealthCheckAttempts) < MaxAttempts
    /\ \E o \in HealthOutcomes(ctxDone) :
        LET attempt  == CommandResult(o, clock)
            now      == clock + o.Duration
            appended == [result EXCEPT !.HealthCheckAttempts = Append(@, attempt)]
            down     == [appended EXCEPT
                            !.RTOStartTime = IF rtaStarted THEN @ ELSE attempt.Timestamp]
        IN
        /\ executeCommand(<<"health_check_command", 0>>, o)
        /\ attemptNum' = attemptNum + 1
        /\ IF attempt.ExitCode = 0
           THEN /\ result' = Healthy(appended, rtaStarted, now)
                /\ rtaStarted' = rtaStarted
                /\ pc' = AfterPoll
           ELSE /\ rtaStarted' = TRUE
                /\ IF DeadlineExceeded(down, now)
                   THEN /\ result' = Exceeded(down, now)
                        /\ pc' = AfterPoll
                   ELSE /\ result' = down
                        /\ pc' = "wait"
    /\ UNCHANGED <<scenario, latency, bashFound, cli, retErr>>

\* WaitElapsed without the sleep: the next attempt follows at once.
WaitElapsed_NoSleep ==
    /\ pc = "wait"
    /\ ~ctxDone
    /\ pc' = "poll"
    /\ UNCHANGED <<scenario, latency, bashFound, cli, ctxDone, clock, result, retErr, rtaStarted, attemptNum, issued>>

\* The inter-poll wait runs out (time.After wins the select), line 311.
WaitElapsed ==
    /\ pc = "wait"
    /\ ~ctxDone
    /\ clock' = clock + HealthCheckInterval
    /\ pc' = "poll"
    /\ UNCHANGED <<scenario, latency, bashFound, cli, ctxDone, result, retErr, rtaStarted, attemptNum, issued>>

\* Interrupted leaving RTA-end and the verdict to the end of Run.
Interrupted_NoEnd(res, started, t1, t2) == res

\* result after ctx.Done() won the select, lines 305-309: time.Since reads
\* the clock at t1, time.Now() reads it again at t2.
Interrupted(res, started, t1, t2) ==
    IF started
    THEN [res EXCEPT !.RTA = t1 - res.RTOStartTime,
                     !.RTOEndTime = t2,
                     !.RTOPassed = (t1 - res.RTOStartTime <= res.RTOTarget)]
    ELSE res

\* WaitCancelled making Run return the context's error.
WaitCancelled_Returns ==
    /\ pc = "wait"
    /\ ctxDone
    /\ \E gap \in 0..MaxGap :
        /\ result' = Interrupted(result, rtaStarted, clock, clock + gap)
        /\ clock' = clock + gap
    /\ pc' = "done"
    /\ retErr' = Canceled
    /\ UNCHANGED <<scenario, latency, bashFound, cli, ctxDone, rtaStarted, attemptNum, issued>>

\* ctx.Done() wins the select, lines 304-310.
WaitCancelled ==
    /\ pc = "wait"
    /\ ctxDone
    /\ \E gap \in 0..MaxGap :
        /\ result' = Interrupted(result, rtaStarted, clock, clock + gap)
        /\ clock' = clock + gap
    /\ pc' = AfterPoll
    /\ UNCHANGED <<scenario, latency, bashFound, cli, ctxDone, retErr, rtaStarted, attemptNum, issued>>

-----------------------------------------------------------------------------
(* Run, after the polling loop *)

\* Step 6: post-snapshot.
PostSnapshot ==
    /\ pc = "post"
    /\ \E o \in Outcomes(ctxDone, Unmeasured) :
        LET r == CommandResult(o, clock) IN
        /\ executeCommand(<<"post_snapshot", 0>>, o)
        /\ result' = [result EXCEPT
                        !.PostSnapshot = r,
                        !.Errors = IF r.ExitCode # 0
                                   THEN Append(@, FailedError("post_snapshot", r.ExitCode))
                                   ELSE @]
    /\ pc' = "verify"
    /\ UNCHANGED <<scenario, latency, bashFound, cli, retErr, rtaStarted, attemptNum>>

\* RPOVerify taking the verdict from the command having run at all.
RPOVerify_AlwaysPass ==
    /\ pc = "verify"
    /\ scenario.VerifyCommand
    /\ \E o \in Outcomes(ctxDone, Unmeasured) :
        LET r == CommandResult(o, clock) IN
        /\ executeCommand(<<"verify_command", 0>>, o)
        /\ result' = [result EXCEPT
                        !.RPOVerify = r,
                        !.RPOPassed = TRUE,
                        !.Errors = IF r.ExitCode # 0
                                   THEN Append(@, FailedError("rpo verify_command", r.ExitCode))
                                   ELSE @]
    /\ pc' = AfterVerify
    /\ UNCHANGED <<scenario, latency, bashFound, cli, retErr, rtaStarted, attemptNum>>

\* Step 7 with a verify command, lines 152-159.
RPOVerify ==
    /\ pc = "verify"
    /\ scenario.VerifyCommand
    /\ \E o \in Outcomes(ctxDone, Unmeasured) :
        LET r == CommandResult(o, clock) IN
        /\ executeCommand(<<"verify_command", 0>>, o)
        /\ result' = [result EXCEPT
                        !.RPOVerify = r,
                        !.RPOPassed = (r.ExitCode = 0),
                        !.Errors = IF r.ExitCode # 0
                                   THEN Append(@, FailedError("rpo verify_command", r.ExitCode))
                                   ELSE @]
    /\ pc' = AfterVerify
    /\ UNCHANGED <<scenario, latency, bashFound, cli, retErr, rtaStarted, attemptNum>>

NoVerifyError == <<"RPO target specified but no verify_command provided">>

\* Step 7 without a verify command, lines 160-163.
RPOSkipped ==
    /\ pc = "verify"
    /\ ~scenario.VerifyCommand
    /\ result' = [result EXCEPT
                    !.Errors = IF scenario.RPOTarget > 0 THEN Append(@, NoVerifyError) ELSE @]
    /\ pc' = AfterVerify
    /\ UNCHANGED <<scenario, latency, bashFound, cli, ctxDone, clock, retErr, rtaStarted, attemptNum, issued>>

\* Step 8: the next factor log command, lines 167-170.
FactorLog ==
    /\ pc = "logs"
    /\ \E o \in Outcomes(ctxDone, Unmeasured) :
        LET logResult == CommandResult(o, clock) IN
        /\ executeCommand(<<"log_commands", Len(result.FactorLogs) + 1>>, o)
        /\ result' = [result EXCEPT !.FactorLogs = Append(@, logResult)]
        /\ pc' = IF Len(result.FactorLogs) + 1 < scenario.LogCommands THEN "logs" ELSE "final"
    /\ UNCHANGED <<scenario, latency, bashFound, cli, retErr, rtaStarted, attemptNum>>

\* Finalized without the default of RTOEndTime (line 176 dropped).
Finalized_NoDefault(res, now) ==
    LET ended == [res EXCEPT !.EndTime = now] IN
    IF res.RTOEndTime = Zero /\ res.RTOStartTime # Zero
    THEN [ended EXCEPT !.RTOEndTime = now,
                       !.RTA = now - res.RTOStartTime,
                       !.RTOPassed = (now - res.RTOStartTime <= res.RTOTarget)]
    ELSE ended

\* result at the end of Run, lines 173-181, at time now.
Finalized(res, now) ==
    LET ended == [res EXCEPT !.EndTime = now] IN
    IF res.RTOEndTime = Zero
    THEN IF res.RTOStartTime # Zero
         THEN [ended EXCEPT !.RTOEndTime = now,
                            !.RTA = now - res.RTOStartTime,
                            !.RTOPassed = (now - res.RTOStartTime <= res.RTOTarget)]
         ELSE [ended EXCEPT !.RTOEndTime = now]
    ELSE ended

\* Lines 173-183: return result, nil.
Finalize ==
    /\ pc = "final"
    /\ result' = Finalized(result, clock)
    /\ pc' = "done"
    /\ UNCHANGED <<scenario, latency, bashFound, cli, ctxDone, clock, retErr, rtaStarted, attemptNum, issued>>

Next ==
    \/ Start
    \/ Cancel
    \/ PreSnapshot
    \/ Disrupt
    \/ DelayElapsed
    \/ DelayCancelled
    \/ DownDetect
    \/ Recover
    \/ Poll
    \/ WaitElapsed
    \/ WaitCancelled
    \/ PostSnapshot
    \/ RPOVerify
    \/ RPOSkipped
    \/ FactorLog
    \/ Finalize
    \/ Hang

Spec == Init /\ [][Next]_vars

\* The steps of Run itself: every command returns and every sleep ends.
RunStep ==
    \/ Start
    \/ PreSnapshot
    \/ Disrupt
    \/ DelayElapsed
    \/ DelayCancelled
    \/ DownDetect
    \/ Recover
    \/ Poll
    \/ WaitElapsed
    \/ WaitCancelled
    \/ PostSnapshot
    \/ RPOVerify
    \/ RPOSkipped
    \/ FactorLog
    \/ Finalize

-----------------------------------------------------------------------------
(* The run operation: runScenario and main *)

\* config.ParseScenario: the file is read and is YAML, or not.
ParseScenario ==
    /\ cli.pc = "parse"
    /\ \E ok \in BOOLEAN :
        cli' = IF ok THEN [cli EXCEPT !.pc = "validate"]
               ELSE [cli EXCEPT !.pc = "exit", !.err = "failed to parse scenario"]
    /\ UNCHANGED <<scenario, latency, bashFound, ctxDone, clock, pc, result, retErr, rtaStarted, attemptNum, issued>>

\* ValidateError without the test of the health-check command.
ValidateError_SkipsHealthCheck(s) ==
    IF "name" \in s.Missing THEN "required field 'name' is missing"
    ELSE IF "rto_target" \in s.Malformed THEN "missing or invalid 'rto_target'"
    ELSE IF "rpo_target" \in s.Malformed THEN "invalid 'rpo_target' duration"
    ELSE IF "disrupt_command" \in s.Missing THEN "required field 'disrupt_command' is missing"
    ELSE IF "post_disrupt_delay" \in s.Malformed THEN "invalid 'post_disrupt_delay' duration"
    ELSE "nil"

\* Scenario.Validate: the first test that fails, in the order of the code.
ValidateError(s) ==
    IF "name" \in s.Missing THEN "required field 'name' is missing"
    ELSE IF "rto_target" \in s.Malformed THEN "missing or invalid 'rto_target'"
    ELSE IF "rpo_target" \in s.Malformed THEN "invalid 'rpo_target' duration"
    ELSE IF "disrupt_command" \in s.Missing THEN "required field 'disrupt_command' is missing"
    ELSE IF "health_check_command" \in s.Missing
         THEN "required field 'health_check_command' is missing"
    ELSE IF "post_disrupt_delay" \in s.Malformed THEN "invalid 'post_disrupt_delay' duration"
    ELSE "nil"

\* runScenario validates the scenario before anything else is done with it.
Validate ==
    /\ cli.pc = "validate"
    /\ cli' = IF ValidateError(scenario) = "nil"
              THEN [cli EXCEPT !.pc = "mkdir"]
              ELSE [cli EXCEPT !.pc = "exit", !.err = "scenario validation failed"]
    /\ UNCHANGED <<scenario, latency, bashFound, ctxDone, clock, pc, result, retErr, rtaStarted, attemptNum, issued>>

\* createOutputDirectory: os.MkdirAll succeeds or not; then Run is called
\* with context.Background().
createOutputDirectory ==
    /\ cli.pc = "mkdir"
    /\ \E ok \in BOOLEAN :
        cli' = IF ok THEN [cli EXCEPT !.pc = "run"]
               ELSE [cli EXCEPT !.pc = "exit", !.err = "failed to create output directory"]
    /\ UNCHANGED <<scenario, latency, bashFound, ctxDone, clock, pc, result, retErr, rtaStarted, attemptNum, issued>>

\* the report files of a drill
ReportFiles == {"report.md", "report.json"}

\* generateReports writing reports only for a drill that passed its RTO.
generateReports_OnlyOnPass ==
    /\ cli.pc = "run"
    /\ pc \in {"done", "rejected"}
    /\ IF retErr # "nil" \/ ~result.RTOPassed
       THEN cli' = [cli EXCEPT !.pc = "exit", !.err = "drill execution failed"]
       ELSE \E written \in {{}, {"report.md"}, ReportFiles} :
               cli' = [cli EXCEPT !.pc = "exit",
                                  !.reports = written,
                                  !.err = IF written = ReportFiles THEN "nil"
                                          ELSE "failed to generate reports"]
    /\ UNCHANGED <<scenario, latency, bashFound, ctxDone, clock, pc, result, retErr, rtaStarted, attemptNum, issued>>

\* Run has returned: runScenario returns its error, or writes report.md and
\* then report.json, stopping at the first write that fails.
generateReports ==
    /\ cli.pc = "run"
    /\ pc \in {"done", "rejected"}
    /\ IF retErr # "nil"
       THEN cli' = [cli EXCEPT !.pc = "exit", !.err = "drill execution failed"]
       ELSE \E written \in {{}, {"report.md"}, ReportFiles} :
               cli' = [cli EXCEPT !.pc = "exit",
                                  !.reports = written,
                                  !.err = IF written = ReportFiles THEN "nil"
                                          ELSE "failed to generate reports"]
    /\ UNCHANGED <<scenario, latency, bashFound, ctxDone, clock, pc, result, retErr, rtaStarted, attemptNum, issued>>

\* main: the exit status of the process for the error Execute returned.
ExitStatus(err) == IF err = "nil" THEN 0 ELSE 1

\* The run operation on any scenario file.
InitCli ==
    /\ scenario \in Scenarios
    /\ latency \in 0..MaxDur
    /\ bashFound \in BOOLEAN
    /\ cli = [pc |-> "parse", err |-> "nil", reports |-> {}]
    /\ ctxDone = FALSE
    /\ clock = 1
    /\ pc = "start"
    /\ result = InitResult
    /\ retErr = "nil"
    /\ rtaStarted = FALSE
    /\ attemptNum = 0
    /\ issued = <<>>

\* The steps of the run operation: context.Background() is never cancelled.
NextCli ==
    \/ ParseScenario
    \/ Validate
    \/ createOutputDirectory
    \/ Start
    \/ PreSnapshot
    \/ Disrupt
    \/ DelayElapsed
    \/ DownDetect
    \/ Recover
    \/ Poll
    \/ WaitElapsed
    \/ PostSnapshot
    \/ RPOVerify
    \/ RPOSkipped
    \/ FactorLog
    \/ Finalize
    \/ Hang
    \/ generateReports

SpecCli == InitCli /\ [][NextCli]_vars

-----------------------------------------------------------------------------
(* Liveness *)

\* Runs whose durations parse and whose RTO target is at most one poll
\* interval: a loop whose health check never succeeds passes its deadline
\* within MaxAttempts attempts.
InitLive == Init /\ scenario.Malformed = {} /\ scenario.RTOTarget <= HealthCheckInterval

\* The steps of a run none of whose commands hangs.
NextLive == RunStep \/ Cancel

\* Run keeps running: the scheduler does not stop the goroutine, commands
\* return and timers fire.
SpecLive == InitLive /\ [][NextLive]_vars /\ WF_vars(RunStep)

-----------------------------------------------------------------------------
(* Properties *)

\* Run has returned a result and no error.
Completed == pc = "done" /\ retErr = "nil"

Attempts == result.HealthCheckAttempts

\* s is an initial part of t.
IsPrefix(s, t) == Len(s) <= Len(t) /\ SubSeq(t, 1, Len(s)) = s

Opt(present, cmd) == IF present THEN <<cmd>> ELSE <<>>

\* The commands of a run with k polling-loop health checks, in the order
\* the specification gives them.
Expected(k) ==
    Opt(scenario.PreSnapshot, <<"pre_snapshot", 0>>)
    \o <<  <<"disrupt_command", 0>>, <<"health_check_command", 0>>  >>
    \o Opt(scenario.RecoverCommand, <<"recover_command", 0>>)
    \o [i \in 1..k |-> <<"health_check_command", 0>>]
    \o Opt(scenario.PostSnapshot, <<"post_snapshot", 0>>)
    \o Opt(scenario.VerifyCommand, <<"verify_command", 0>>)
    \o [i \in 1..scenario.LogCommands |-> <<"log_commands", i>>]

\* The polling-loop health checks issued so far, 1 before the loop has run.
Polls == IF Len(Attempts) > 2 THEN Len(Attempts) - 1 ELSE 1

\* The commands among s that returned a non-zero exit status.
Failures(s) == { i \in 1..Len(s) : s[i].ExitCode # 0 }

InErrors(e) == \E i \in 1..Len(result.Errors) : result.Errors[i] = e

\* C1: in every result of a completed run, either RTA-start is unset and RTA
\* is zero, or RTA = RTA-end - RTA-start and RTO-passed <=> RTA <= RTO target.
\* Fails when the inter-poll wait is cancelled: RTA and RTA-end come from two
\* reads of the clock.
C1_RtaConsistent ==
    Completed =>
        \/ result.RTOStartTime = Zero /\ result.RTA = 0
        \/ /\ result.RTA = result.RTOEndTime - result.RTOStartTime
           /\ result.RTOPassed <=> (result.RTA <= result.RTOTarget)

\* C2 as claimed: if the down-detection check exits 0, the final result has
\* RTA-start unset, RTA zero and RTO-passed true, whatever the polling loop sees.
C2_FirstCheckDecides ==
    (Completed /\ Attempts[1].ExitCode = 0) =>
        result.RTOStartTime = Zero /\ result.RTA = 0 /\ result.RTOPassed

\* C2 amended: if the down-detection check and the first health check of the
\* polling loop both exit 0, then from there on RTA-start is unset, RTA is zero,
\* RTO-passed is true and no further health check is issued.
C2_FirstTwoChecksDecide ==
    (Len(Attempts) >= 2 /\ Attempts[1].ExitCode = 0 /\ Attempts[2].ExitCode = 0) =>
        /\ result.RTOStartTime = Zero
        /\ result.RTA = 0
        /\ result.RTOPassed
        /\ Len(Attempts) = 2

C2_Witness ==
    /\ Completed
    /\ scenario.RecoverCommand
    /\ result.Recover.ExitCode # 0
    /\ Len(Attempts) = 2 /\ Attempts[1].ExitCode = 0 /\ Attempts[2].ExitCode = 0
    /\ result.RTOPassed

C4_FailuresDoNotAbort ==
    /\ retErr # "nil" =>
            \/ pc = "rejected" /\ issued = <<>>
            \/ pc = "done" /\ retErr = "context canceled" /\ ctxDone /\ Attempts = <<>>
    /\ (pc = "done" /\ (retErr = "nil" \/ ~ctxDone)) =>
            /\ retErr = "nil"
            /\ result.EndTime # Zero
            /\ result.Disrupt # None
            /\ Len(Attempts) >= 2
            /\ scenario.PreSnapshot => result.PreSnapshot # None
            /\ scenario.RecoverCommand => result.Recover # None
            /\ scenario.PostSnapshot => result.PostSnapshot # None
            /\ scenario.VerifyCommand => result.RPOVerify # None
            /\ Len(result.FactorLogs) = scenario.LogCommands

C4_Witness ==
    /\ Completed
    /\ ~ctxDone
    /\ result.EndTime # Zero
    /\ result.PreSnapshot.ExitCode = 1
    /\ result.Disrupt.ExitCode = 1
    /\ result.Recover.ExitCode = 1
    /\ result.PostSnapshot.ExitCode = 1
    /\ result.RPOVerify.ExitCode = 1
    /\ Len(result.FactorLogs) = MaxFactors
    /\ \A i \in 1..MaxFactors : result.FactorLogs[i].ExitCode = 1

\* C5: every command among pre-snapshot, disrupt, recover, post-snapshot, RPO
\* verify and the factor log commands that returned non-zero has appended one
\* error string: the error list of a completed run holds one string per failed
\* command (and the one about a missing verify command).
C5_EveryFailureRecorded ==
    Completed =>
        Len(result.Errors) =
              Cardinality({ f \in {"PreSnapshot", "Disrupt", "Recover", "PostSnapshot", "RPOVerify"} :
                              result[f].ExitCode # 0 })
            + Cardinality(Failures(result.FactorLogs))
            + (IF InErrors(NoVerifyError) THEN 1 ELSE 0)

\* C6: in a completed run RPO-passed is true exactly when a verify command
\* was configured and returned 0; with an RPO target and no verify command
\* RPO-passed is false and the error list says so.
C6_RpoVerdict ==
    Completed =>
        /\ result.RPOPassed <=>
              (scenario.VerifyCommand /\ result.RPOVerify # None /\ result.RPOVerify.ExitCode = 0)
        /\ (scenario.RPOTarget > 0 /\ ~scenario.VerifyCommand) =>
              ~result.RPOPassed /\ InErrors(NoVerifyError)

C6_Witness ==
    /\ Completed
    /\ scenario.RPOTarget > 0
    /\ ~scenario.VerifyCommand
    /\ ~result.RPOPassed
    /\ InErrors(NoVerifyError)

\* Some health check so far has succeeded.
AnySuccess == \E i \in 1..Len(Attempts) : Attempts[i].ExitCode = 0

\* C7: if the health check never succeeds and the run is never cancelled, the
\* polling loop ends by itself and the run completes with RTO-passed false and
\* RTA > RTO target.
C7_Terminates ==
    /\ <>( \/ ctxDone
           \/ AnySuccess
           \/ Completed /\ ~result.RTOPassed /\ result.RTA > result.RTOTarget )
    /\ []( (~ctxDone /\ ~AnySuccess /\ pc \in {"post", "verify", "logs", "final", "done"}) =>
              ~result.RTOPassed /\ result.RTA > result.RTOTarget )

C7_Witness ==
    /\ Completed
    /\ ~ctxDone
    /\ ~AnySuccess
    /\ Len(Attempts) = 4
    /\ \A i \in 1..4 : Attempts[i].Kind = "exit"
    /\ ~result.RTOPassed
    /\ result.RTA > result.RTOTarget

\* The health check fails on its first two executions and succeeds on the
\* third; the RTO target is 5 minutes.
C8_Scenario ==
    /\ scenario.RTOTarget = 300
    /\ Len(Attempts) >= 3
    /\ Attempts[1].ExitCode # 0
    /\ Attempts[2].ExitCode # 0
    /\ Attempts[3].ExitCode = 0

C9_CancelFinalizesAsExceeded ==
    [][ (pc = "wait" /\ ctxDone /\ rtaStarted) =>
            /\ result'.RTA = clock' - result.RTOStartTime
            /\ result'.RTOEndTime = clock'
            /\ ~result'.RTOPassed ]_vars

\* The commands of a run that got as far as the post-disrupt delay.
UpToDisrupt ==
    Opt(scenario.PreSnapshot, <<"pre_snapshot", 0>>) \o << <<"disrupt_command", 0>> >>

\* C10: a cancellation during the post-disrupt delay makes Run return the
\* cancellation error at once, and a run that returned it has issued no
\* command after the disrupt command: the health-check history is empty and
\* there is no recover, post-snapshot, verify or factor-log result.
C10_CancelledDelayReturns ==
    /\ [][ (pc = "delay" /\ ctxDone) =>
              /\ pc' = "done"
              /\ retErr' = "context canceled"
              /\ issued' = issued ]_vars
    /\ [](retErr = "context canceled" =>
              /\ pc = "done"
              /\ issued = UpToDisrupt
              /\ Attempts = <<>>
              /\ result.Recover = None
              /\ result.PostSnapshot = None
              /\ result.RPOVerify = None
              /\ result.FactorLogs = <<>>
              /\ ~ENABLED Next)

C10_Witness ==
    /\ pc = "done"
    /\ retErr = "context canceled"
    /\ scenario.RecoverCommand /\ scenario.PostSnapshot /\ scenario.VerifyCommand
    /\ scenario.LogCommands > 0
    /\ issued = UpToDisrupt
    /\ Attempts = <<>>

\* The result fields of the steps that record an error string, with the name
\* the string gives the step.
StepName ==
    [ PreSnapshot |-> "pre_snapshot", Disrupt |-> "disrupt_command",
      Recover |-> "recover_command", PostSnapshot |-> "post_snapshot",
      RPOVerify |-> "rpo verify_command" ]

\* Every *CommandResult the result holds.
Recorded ==
    { result[f] : f \in DOMAIN StepName }
    \cup { Attempts[i] : i \in 1..Len(Attempts) }
    \cup { result.FactorLogs[i] : i \in 1..Len(result.FactorLogs) }

\* Some command of the run could not be launched.
LaunchFailed == \E r \in Recorded : r.Kind = "launch"

\* C11 as claimed: when a command cannot be launched at all, the run is aborted
\* and the failure is returned to the caller as an error.
C11_LaunchFailureAborts ==
    LaunchFailed => pc = "done" /\ retErr # "nil"

\* C11 amended: a command that cannot be launched is recorded like any failed
\* command, with exit code -1 and the text of the launch error as its stderr;
\* its step appends its non-fatal error string, Run returns no error for it,
\* and an uncancelled run goes on through every remaining step.
C11_LaunchFailureRecorded ==
    /\ \A r \in Recorded :
           r.Kind = "launch" => r.ExitCode = -1 /\ r.Stderr = <<NotFound>>
    /\ \A f \in DOMAIN StepName :
           result[f].Kind = "launch" => InErrors(FailedError(StepName[f], -1))
    /\ (LaunchFailed /\ ~ctxDone) => retErr = "nil"
    /\ (LaunchFailed /\ ~ctxDone /\ pc = "done") =>
           /\ issued = Expected(Len(Attempts) - 1)
           /\ result.EndTime # Zero
           /\ \A r \in Recorded : r # None => r.Kind = "launch"

C11_Witness ==
    /\ Completed
    /\ ~ctxDone
    /\ ~bashFound
    /\ scenario.PreSnapshot /\ scenario.RecoverCommand /\ scenario.PostSnapshot
    /\ scenario.VerifyCommand /\ scenario.LogCommands = MaxFactors
    /\ result.Disrupt.Kind = "launch"
    /\ Len(result.Errors) = 5
    /\ Len(issued) = 5 + Len(Attempts) + MaxFactors

\* what fmt.Sprintf("command timed out: %v", err) gives for a killed command
TimedOut == <<"command timed out:", "signal: killed">>

\* C12: a process that exits by itself yields its own exit code; a command
\* that ends because its deadline elapsed has exit code -1 and, if nothing was
\* captured on stderr, the 'command timed out' message as its stderr; a
\* command ended by the caller's cancellation has exit code -1 and, under the
\* same condition, the cancellation message.
\* Fails for a health check killed at its timeout: cmd.Run returns an
\* *exec.ExitError, so the empty stderr is left as it is.
C12_ExitCodeMapping ==
    \A r \in Recorded :
        /\ r.Kind = "exit" => r.ExitCode \in ExitCodes
        /\ r.Kind = "timeout" =>
               /\ r.ExitCode = -1
               /\ r.StderrHash = hashString(Silent) => r.Stderr = TimedOut
        /\ r.Kind = "canceled" =>
               /\ r.ExitCode = -1
               /\ r.StderrHash = hashString(Silent) =>
                      r.Stderr \in { <<"command canceled:", Canceled>>,
                                     <<"command canceled:", NotFound>> }

\* C13: if the RTO target, the RPO target or the post-disrupt delay of the
\* scenario is a malformed duration string, Run returns an error and no
\* result record, and no command at all has been executed.
C13_MalformedDurationRejected ==
    /\ scenario.Malformed # {} =>
           /\ pc \in {"start", "rejected"}
           /\ issued = <<>>
           /\ result = InitResult
    /\ pc = "rejected" <=> (retErr \notin {"nil", Canceled})
    /\ pc = "rejected" =>
           /\ scenario.Malformed # {}
           /\ retErr = ParseError(scenario)
           /\ ~ENABLED Next

C13_Witness ==
    /\ pc = "rejected"
    /\ scenario.Malformed = {"post_disrupt_delay"}
    /\ scenario.PreSnapshot
    /\ retErr = "invalid post_disrupt_delay"
    /\ issued = <<>>

\* C14 as claimed: in the result of a completed run in which no health-check
\* attempt failed, both RTA-start and RTA-end are unset.
C14_NeverDownBothUnset ==
    (Completed /\ Failures(Attempts) = {}) =>
        result.RTOStartTime = Zero /\ result.RTOEndTime = Zero

\* C14 amended: in the result of a completed run in which no health-check
\* attempt failed, RTA-start is unset and RTA is zero, RTO-passed is true, and
\* RTA-end, which the polling loop left unset, holds the end timestamp of the
\* run.
C14_NeverDownEndDefaulted ==
    /\ Failures(Attempts) = {} =>
           /\ result.RTOStartTime = Zero
           /\ result.RTA = 0
           /\ pc # "done" => result.RTOEndTime = Zero
    /\ (Completed /\ Failures(Attempts) = {}) =>
           /\ result.RTOPassed
           /\ result.EndTime # Zero
           /\ result.RTOEndTime = result.EndTime

C14_Witness ==
    /\ Completed
    /\ Len(Attempts) = 2
    /\ Failures(Attempts) = {}
    /\ result.RTOStartTime = Zero
    /\ result.RTOEndTime = result.EndTime
    /\ result.EndTime > result.StartTime

\* The health checks handed to bash so far.
HealthChecksIssued ==
    Cardinality({ i \in 1..Len(issued) : issued[i][1] = "health_check_command" })

\* C15: the health-check history is append-only: every health check that is
\* executed appends exactly one entry, its own, at the end, and no other step
\* touches the history; so at every point the length of the history is the
\* number of health checks issued so far, and the entries are in issue order,
\* one check ending before the next starts.
C15_HistoryAppendOnly ==
    /\ [][ /\ IsPrefix(Attempts, Attempts')
           /\ IF Len(issued') > Len(issued) /\ issued'[Len(issued')][1] = "health_check_command"
              THEN /\ Len(Attempts') = Len(Attempts) + 1
                   /\ Attempts'[Len(Attempts')].Timestamp = clock
                   /\ Attempts'[Len(Attempts')].Duration = clock' - clock
              ELSE Attempts' = Attempts ]_vars
    /\ [](/\ Len(Attempts) = HealthChecksIssued
          /\ \A i \in 1..(Len(Attempts) - 1) :
                 Attempts[i].Timestamp + Attempts[i].Duration <= Attempts[i+1].Timestamp)

C15_Witness ==
    /\ Completed
    /\ Len(Attempts) = MaxAttempts
    /\ HealthChecksIssued = MaxAttempts
    /\ Attempts[1].ExitCode = 0
    /\ Attempts[2].ExitCode # 0
    /\ Attempts[MaxAttempts].ExitCode = 0
    /\ Attempts[MaxAttempts].Timestamp > Attempts[1].Timestamp

\* The first failed command of s, 0 when there is none.
FirstFailure(s) ==
    IF Failures(s) = {} THEN 0
    ELSE CHOOSE i \in Failures(s) : \A j \in Failures(s) : i <= j

\* C16: whenever RTA-start is set, it is the start timestamp of the earliest
\* failing attempt in the health-check history, and once set it is never
\* changed for the rest of the run.
C16_RtaStartIsFirstFailure ==
    /\ [][ result.RTOStartTime # Zero => result'.RTOStartTime = result.RTOStartTime ]_vars
    /\ [](IF Failures(Attempts) = {}
          THEN result.RTOStartTime = Zero
          ELSE result.RTOStartTime = Attempts[FirstFailure(Attempts)].Timestamp)

C16_Witness ==
    /\ Completed
    /\ Len(Attempts) = 4
    /\ Attempts[1].ExitCode = 0
    /\ Attempts[2].ExitCode # 0
    /\ Attempts[3].ExitCode # 0
    /\ result.RTOStartTime = Attempts[2].Timestamp
    /\ Attempts[3].Timestamp > Attempts[2].Timestamp
    /\ Attempts[2].Timestamp > Attempts[1].Timestamp

\* C17: if RTO-passed is true in the result of a run, the last recorded
\* health-check attempt has exit code 0.
\* Fails when the inter-poll wait is cancelled within the RTO target (C9).
C17_PassMeansHealthy ==
    (Completed /\ result.RTOPassed) =>
        Len(Attempts) > 0 /\ Attempts[Len(Attempts)].ExitCode = 0

\* C18: once the run's context is cancelled, during the inter-poll wait or
\* before an attempt, the polling loop ends at once: no further health check
\* is executed or appended to the history.
\* Fails when the context is cancelled before an attempt: the loop tests the
\* context only in its select, after the attempt.
C18_NoAttemptAfterCancel ==
    [][ (ctxDone /\ pc \in {"poll", "wait"}) =>
            /\ Attempts' = Attempts
            /\ issued' = issued
            /\ pc' \notin {"poll", "wait"} ]_vars

\* C19: if the context is cancelled while the polling loop is in AwaitingDown
\* (RTA has not started), the loop stops with no verdict change: RTA-start
\* stays unset, RTA stays zero and RTO-passed is not altered.
\* Fails: the attempt launched with the cancelled context fails with -1 and
\* starts RTA.
C19_CancelInAwaitingDown ==
    [][ (ctxDone /\ pc = "poll" /\ ~rtaStarted) =>
            /\ result'.RTOStartTime = Zero
            /\ result'.RTA = 0
            /\ result'.RTOPassed = result.RTOPassed
            /\ pc' = AfterPoll ]_vars

\* C20: every child process the engine waits for is bounded by its own
\* timeout: no health check, the step-4 check included, and no disrupt,
\* recover, snapshot, verify or factor-log command that never exits blocks an
\* uncancelled run forever.
\* Fails: only the health checks of the polling loop get a context with a
\* deadline; Run waits for every other command under ctx.
C20_EveryChildBounded ==
    ~ctxDone => pc # "blocked"

\* C21: for every CommandResult the executor produced, whatever its exit
\* code, the stdout hash is the digest of the stdout text stored in it and the
\* stderr hash is the digest of the stderr text stored in it.
\* Fails for a command that did not start (context cancelled, bash missing):
\* the stderr hash is taken before the message is put in place of the empty
\* stderr.
C21_HashesMatchText ==
    \A r \in Recorded :
        r # None =>
            /\ r.StdoutHash = hashString(r.Stdout)
            /\ r.StderrHash = hashString(r.Stderr)

\* The recover command and the health checks recorded in res took no time.
Negligible(res) ==
    /\ res.Recover.Duration = 0
    /\ \A i \in 1..Len(res.HealthCheckAttempts) : res.HealthCheckAttempts[i].Duration = 0

\* C22: when the polling loop ends on a failed attempt (the deadline was
\* exceeded with the service still down) and the recover and health-check
\* commands took no time, RTO-passed is false and
\* RTO target < RTA <= RTO target + poll interval; a failed check observed no
\* later than RTA-start + RTO target does not end the loop.
C22_ExceededWithinOneInterval ==
    /\ [][ (/\ pc = "poll"
            /\ pc' = AfterPoll
            /\ Attempts'[Len(Attempts')].ExitCode # 0
            /\ Negligible(result')) =>
               /\ ~result'.RTOPassed
               /\ result'.RTA = result'.RTOEndTime - result'.RTOStartTime
               /\ result'.RTA > result'.RTOTarget
               /\ result'.RTA <= result'.RTOTarget + HealthCheckInterval ]_vars
    /\ [][ (/\ pc = "poll"
            /\ pc' # pc
            /\ Attempts'[Len(Attempts')].ExitCode # 0
            /\ clock' <= result'.RTOStartTime + result'.RTOTarget) =>
               pc' = "wait" ]_vars

C22_Witness ==
    /\ Completed
    /\ ~ctxDone
    /\ Negligible(result)
    /\ Len(Attempts) = 4
    /\ \A i \in 1..4 : Attempts[i].ExitCode # 0
    /\ Attempts[3].Timestamp = result.RTOStartTime + result.RTOTarget
    /\ ~result.RTOPassed
    /\ result.RTA = result.RTOTarget + HealthCheckInterval

C24_DelayBeforeChecks ==
    scenario.PostDisruptDelay > 0 =>
        LET ready == result.Disrupt.Timestamp + result.Disrupt.Duration
                        + scenario.PostDisruptDelay
        IN  /\ \A i \in 1..Len(Attempts) : Attempts[i].Timestamp >= ready
            /\ result.Recover # None => result.Recover.Timestamp >= ready
            /\ (Attempts # <<>> \/ result.Recover # None) => result.Disrupt # None

C24_Witness ==
    /\ Completed
    /\ ~ctxDone
    /\ scenario.PostDisruptDelay > 0
    /\ scenario.RecoverCommand
    /\ result.Disrupt.Duration > 0
    /\ Attempts[1].Timestamp =
           result.Disrupt.Timestamp + result.Disrupt.Duration + scenario.PostDisruptDelay
    /\ result.Recover.Timestamp >= Attempts[1].Timestamp

\* The commands that have run so far, with the time each started and ended:
\* the steps' results that are set, the health checks and the factor logs.
Ran ==
    SelectSeq(<<result.PreSnapshot, result.Disrupt, result.Recover,
                result.PostSnapshot, result.RPOVerify>>
              \o Attempts \o result.FactorLogs,
              LAMBDA r : r.Kind # "nil")

\* C25: at most one shell command is in flight at any time: a command starts
\* only after the one before it has returned, so no two recorded commands
\* overlap, consecutive health checks least of all, every recorded command
\* has returned by the time the run goes on, and each step has run at most
\* the one command it records.
C25_OneCommandAtATime ==
    [](LET ran == Ran
           n == Len(ran)
       IN  /\ \A i \in 1..n :
                  /\ ran[i].Timestamp + ran[i].Duration <= clock
                  /\ \A j \in (i + 1)..n :
                         \/ ran[i].Timestamp + ran[i].Duration <= ran[j].Timestamp
                         \/ ran[j].Timestamp + ran[j].Duration <= ran[i].Timestamp
           /\ \A i \in 1..(Len(Attempts) - 1) :
                  Attempts[i+1].Timestamp >= Attempts[i].Timestamp + Attempts[i].Duration
           /\ Len(issued) = n)

C25_Witness ==
    /\ Completed
    /\ latency > 0
    /\ scenario.PreSnapshot /\ scenario.RecoverCommand /\ scenario.PostSnapshot
    /\ scenario.VerifyCommand /\ scenario.LogCommands = MaxFactors
    /\ Len(Attempts) = 3
    /\ Attempts[2].Timestamp = Attempts[1].Timestamp + 2 * latency
    /\ Len(Ran) = 8 + MaxFactors

C27_RunOnlyOnValidScenario ==
    /\ (cli.pc = "run" \/ pc # "start") =>
           /\ scenario.Missing = {}
           /\ scenario.Malformed = {}
           /\ ParseError(scenario) = "nil"
    /\ pc # "rejected"
    /\ (cli.pc = "exit" /\ (scenario.Missing # {} \/ scenario.Malformed # {})) =>
           /\ cli.err \in {"failed to parse scenario", "scenario validation failed"}
           /\ pc = "start"

C27_Witness ==
    /\ cli.pc = "run"
    /\ Completed
    /\ scenario.Missing = {}
    /\ scenario.Malformed = {}
    /\ scenario.PostDisruptDelay > 0
    /\ scenario.RPOTarget > 0

\* C28: whenever the polling loop has returned with RTA-start set, RTA-end,
\* RTA and the verdict are set already; so the end of Run never computes RTA
\* or RTO-passed, and it assigns RTA-end only when RTA-start is unset.
C28_FallbackNeverTaken ==
    /\ []( (pc \in {"post", "verify", "logs", "final"} /\ result.RTOStartTime # Zero) =>
              /\ result.RTOEndTime # Zero
              /\ result.RTOEndTime >= result.RTOStartTime
              /\ result.RTA <= result.RTOEndTime - result.RTOStartTime
              /\ ~result.RTOPassed => result.RTA > result.RTOTarget )
    /\ [][ pc = "final" =>
              /\ result'.RTA = result.RTA
              /\ result'.RTOPassed = result.RTOPassed
              /\ result'.RTOStartTime = result.RTOStartTime
              /\ result'.RTOEndTime # result.RTOEndTime =>
                     (result.RTOStartTime = Zero /\ result'.RTOEndTime = result'.EndTime) ]_vars

C28_Witness ==
    /\ Completed
    /\ ctxDone
    /\ result.RTOStartTime # Zero
    /\ result.RTOEndTime > result.RTOStartTime
    /\ result.RTA < result.RTOEndTime - result.RTOStartTime
    /\ Attempts[Len(Attempts)].ExitCode # 0
    /\ result.RTOPassed

\* C29: in the polling loop the attempt number used for the progress output
\* is the position of the attempt just appended to the health-check history.
C29_AttemptNumIsPosition ==
    /\ [](pc \in {"recover", "poll", "wait", "post", "verify", "logs", "final", "done"} =>
              attemptNum = Len(Attempts))
    /\ [][ (pc = "poll" /\ pc' # pc) =>
              /\ attemptNum' = Len(Attempts')
              /\ Len(Attempts') = Len(Attempts) + 1 ]_vars

C29_Witness ==
    /\ Completed
    /\ Len(Attempts) = MaxAttempts
    /\ attemptNum = MaxAttempts
    /\ Attempts[1].ExitCode = 0
    /\ Attempts[2].ExitCode # 0

=============================================================================
